---- MODULE Spec2Model ----
(***************************************************************************)
(* Model of index-crawler.py: the crawl of a set of Solid servers          *)
(* (aggregate_data / process_indexes) and the local mirror written by      *)
(* save_data.                                                              *)
(*                                                                         *)
(* Python values are modelled as follows.                                  *)
(*  - A JSON object (dict) that is a document is a record                  *)
(*      [keys, ctx, id, type, graph]                                       *)
(*    where keys is the set of top-level keys the dict holds and the       *)
(*    other fields hold the values of "@context", "@id", "@type" and       *)
(*    "@graph" (the neutral value "" or <<>> under a key that is not in    *)
(*    keys).  None is the string Null.                                     *)
(*  - An entry of "@graph" is a record with one field per key the crawler  *)
(*    reads; Absent marks a key the entry does not hold.  Every entry of   *)
(*    the documents enumerated here holds "@id", and every matching type  *)
(*    index registration holds "solid:instanceContainer".                  *)
(*  - A path is [segs, slash]: its segments and whether it ends in "/".    *)
(*  - The file system is store (file -> document written by json.dump)     *)
(*    and dirs (the directories that exist).  json.dump followed by        *)
(*    json.load gives back the same dict, so a file holds the document.    *)
(***************************************************************************)
EXTENDS Integers, Sequences, FiniteSets, TLC

\* ------------------------------------------------------------------ bounds
MaxRuns == 3      \* crawl runs (executions of run_crawler) explored
MaxDepth == 4     \* nesting of process_indexes at which Python raises RecursionError
MaxSaves == 1     \* save_data calls applied in the save_data-only specification

\* ------------------------------------------------------------ JSON values
Absent == "absent"
Null == "null"

\* Python truthiness of a value read with dict.get (None and "" are falsy)
TruthyValue(v) == v \notin {Absent, Null, ""}

DocKeys == {"@context", "@id", "@type", "@graph"}

Node(id, type) ==
    [id |-> id, type |-> type, instancesIn |-> Absent, seeAlso |-> Absent,
     publicTypeIndex |-> Absent, forClass |-> Absent, instanceContainer |-> Absent]

Doc(keys, ctx, id, type, graph) ==
    [keys |-> keys,
     ctx |-> IF "@context" \in keys THEN ctx ELSE "",
     id |-> IF "@id" \in keys THEN id ELSE "",
     type |-> IF "@type" \in keys THEN type ELSE "",
     graph |-> IF "@graph" \in keys THEN graph ELSE <<>>]

EmptyDoc == Doc({}, "", "", "", <<>>)

\* data.get('@graph', [])
GetGraph(d) == IF "@graph" \in d.keys THEN d.graph ELSE <<>>

\* old_data.get("@context")
GetContext(d) == IF "@context" \in d.keys THEN d.ctx ELSE Null

\* truthiness of a dict: it holds at least one key
TruthyDoc(d) == d.keys # {}

\* set(item['@id'] for item in g)
Refs(g) == {g[j].id : j \in 1..Len(g)}

\* ------------------------------------------------------------------- URLs
S0 == "http://localhost:8000/"
S1 == "http://localhost:8001/"
T0 == "http://localhost:8000/profile"
T1 == "http://localhost:8001/profile"
C0 == "http://localhost:8000/indexes/"
C1 == "http://localhost:8001/indexes/"
I0 == "http://localhost:8000/indexes/users/"
L0 == "http://localhost:8000/indexes/users/skill"
L1 == "http://localhost:8001/indexes/users/skill"
D0 == "http://localhost:8000/archive/skill"

servers == <<S0, S1>>

URLs == {S0, S1, T0, T1, C0, C1, I0, L0, L1, D0}

\* urlparse(url): network location and path of the URLs above
urlparse(url) ==
    CASE url = S0 -> [netloc |-> "localhost:8000", path |-> [segs |-> <<>>, slash |-> TRUE]]
      [] url = S1 -> [netloc |-> "localhost:8001", path |-> [segs |-> <<>>, slash |-> TRUE]]
      [] url = T0 -> [netloc |-> "localhost:8000", path |-> [segs |-> <<"profile">>, slash |-> FALSE]]
      [] url = T1 -> [netloc |-> "localhost:8001", path |-> [segs |-> <<"profile">>, slash |-> FALSE]]
      [] url = C0 -> [netloc |-> "localhost:8000", path |-> [segs |-> <<"indexes">>, slash |-> TRUE]]
      [] url = C1 -> [netloc |-> "localhost:8001", path |-> [segs |-> <<"indexes">>, slash |-> TRUE]]
      [] url = I0 -> [netloc |-> "localhost:8000", path |-> [segs |-> <<"indexes", "users">>, slash |-> TRUE]]
      [] url = L0 -> [netloc |-> "localhost:8000", path |-> [segs |-> <<"indexes", "users", "skill">>, slash |-> FALSE]]
      [] url = L1 -> [netloc |-> "localhost:8001", path |-> [segs |-> <<"indexes", "users", "skill">>, slash |-> FALSE]]
      [] url = D0 -> [netloc |-> "localhost:8000", path |-> [segs |-> <<"archive", "skill">>, slash |-> FALSE]]

\* ------------------------------------------------------------ file system
Front(s) == SubSeq(s, 1, Len(s) - 1)
Last(s) == s[Len(s)]

\* parsed_url.path.lstrip('/'): the path relative to the working directory
\* (the empty path has no trailing "/" left)
RelPath(url) ==
    LET p == urlparse(url).path
    IN  IF p.segs = <<>> THEN [segs |-> <<>>, slash |-> FALSE] ELSE p

\* the file save_data(url, _, save_as_file=True) reads and writes:
\* path.rstrip('/') + '.jsonld'
LeafFile(url) ==
    LET p == RelPath(url)
    IN  IF p.segs = <<>> THEN [dir |-> <<>>, name |-> ""]
        ELSE [dir |-> Front(p.segs), name |-> Last(p.segs)]

\* os.path.dirname(path) of the overwrite branch ('./' for the empty path)
DirName(url) ==
    LET p == RelPath(url)
    IN  IF p.segs = <<>> THEN <<>>
        ELSE IF p.slash THEN p.segs ELSE Front(p.segs)

\* the file the overwrite branch writes: path + '.jsonld'
OverwriteFile(url) ==
    LET p == RelPath(url)
    IN  IF p.segs = <<>> \/ p.slash THEN [dir |-> p.segs, name |-> ""]
        ELSE [dir |-> Front(p.segs), name |-> Last(p.segs)]

\* os.makedirs(dir_name, exist_ok=True): dir_name and all its ancestors
MakeDirs(ds, d) == ds \cup {SubSeq(d, 1, n) : n \in 0..Len(d)}

\* ------------------------------------------------------------- save_data
\* diff_references(old_data, new_data): new_references - old_references
diff_references(old_data, new_data) ==
    Refs(GetGraph(new_data)) \ Refs(GetGraph(old_data))

\* d[item['@id']] = item on an insertion-ordered dict kept as the list of
\* its values: an existing key keeps its position and takes the new value
DictPut(d, item) ==
    IF \E j \in 1..Len(d) : d[j].id = item.id
    THEN [j \in 1..Len(d) |-> IF d[j].id = item.id THEN item ELSE d[j]]
    ELSE Append(d, item)

RECURSIVE DictUpdate(_, _)
\* {**d, **{item['@id']: item for item in g}}
DictUpdate(d, g) ==
    IF g = <<>> THEN d ELSE DictUpdate(DictPut(d, g[1]), Tail(g))

\* {item['@id']: item for item in g}
GraphDict(g) == DictUpdate(<<>>, g)

\* list(merged_graph.values()) of lines 43-49
MergedGraph(old_data, data) ==
    DictUpdate(GraphDict(GetGraph(old_data)), GraphDict(GetGraph(data)))

\* the literal of lines 47-50
MergedLiteral(old_data, data) ==
    Doc({"@context", "@graph"}, GetContext(old_data), "", "", MergedGraph(old_data, data))

\* line 36 written as "if old_data is not None:"
OldDataTruthy_NotNone(exists, old_data) == exists

\* "if old_data:" (line 36); exists is os.path.exists(file_path)
OldDataTruthy(exists, old_data) == exists /\ TruthyDoc(old_data)

\* "if differences:" (line 39)
DifferencesFound(old_data, data) == diff_references(old_data, data) # {}

\* merged_data of lines 36-54
MergedData(exists, old_data, data) ==
    IF OldDataTruthy(exists, old_data)
    THEN IF DifferencesFound(old_data, data)
         THEN MergedLiteral(old_data, data)
         ELSE data
    ELSE data

\* a file whose text is not JSON: json.load (line 34) raises
\* json.JSONDecodeError on it
Malformed == [keys |-> {"<not json>"}, ctx |-> "", id |-> "", type |-> "", graph |-> <<>>]

WriteFile(st, f, d) == [k \in DOMAIN st \cup {f} |-> IF k = f THEN d ELSE st[k]]

\* save_as_file=True (lines 25-57).  json.load (line 34) raises
\* JSONDecodeError on a file that is not JSON; open(file_path, 'w') raises
\* FileNotFoundError when the directory of the file does not exist; this
\* branch creates no directory and catches nothing.
SaveLeaf(url, data, st, ds) ==
    LET f == LeafFile(url)
        exists == f \in DOMAIN st
        old_data == IF exists THEN st[f] ELSE EmptyDoc
        err == IF exists /\ old_data = Malformed THEN "JSONDecodeError"
               ELSE IF f.dir \notin ds THEN "FileNotFoundError"
               ELSE ""
        ok == err = ""
    IN  [ok |-> ok,
         err |-> err,
         store |-> IF ok THEN WriteFile(st, f, MergedData(exists, old_data, data)) ELSE st,
         dirs |-> ds,
         file |-> f]

\* the overwrite branch reconciling against the file as the leaf branch does
SaveOverwrite_Merging(url, data, st, ds) ==
    LET f == OverwriteFile(url)
        exists == f \in DOMAIN st
        old_data == IF exists THEN st[f] ELSE EmptyDoc
    IN  [ok |-> TRUE,
         err |-> "",
         store |-> WriteFile(st, f, MergedData(exists, old_data, data)),
         dirs |-> MakeDirs(ds, DirName(url)),
         file |-> f]

\* save_as_file=False (lines 58-65)
SaveOverwrite(url, data, st, ds) ==
    LET f == OverwriteFile(url)
    IN  [ok |-> TRUE,
         err |-> "",
         store |-> WriteFile(st, f, data),
         dirs |-> MakeDirs(ds, DirName(url)),
         file |-> f]

save_data(url, data, save_as_file, st, ds) ==
    IF save_as_file THEN SaveLeaf(url, data, st, ds) ELSE SaveOverwrite(url, data, st, ds)

\* ---------------------------------------------------- the servers' answers
RefA == "http://localhost:8000/users/a"
RefB == "http://localhost:8000/users/b"
RefC == "http://localhost:8000/users/c"
RefD == "http://localhost:8001/users/d"

Shapes == {"tree", "diamond", "cycle", "dup", "selfpir", "nopti", "deep", "gone", "down",
           "down1", "tidown", "noreg", "masq", "lost"}
LeafChoices == {"none", "empty", "A", "AB", "BC"}
Worlds == [shape : Shapes, leaf : LeafChoices]

Entry(ref) == Node(ref, "ex:IndexEntry")
Index(url) == Node(url, "ex:Index")
InstancesIn(id, target) ==
    [Node(id, "ex:PropertyIndexRegistration") EXCEPT !.instancesIn = target]
SeeAlso(id, instancesIn, target) ==
    [Node(id, "ex:PropertyIndexRegistration") EXCEPT !.instancesIn = instancesIn, !.seeAlso = target]
Registration(id, forClass, container) ==
    [Node(id, "solid:TypeIndexRegistration") EXCEPT !.forClass = forClass, !.instanceContainer = container]
Container(url, graph) == Doc({"@context", "@graph"}, "ctx1", "", "", graph)

LeafGraph(c) ==
    CASE c = "A" -> <<Entry(RefA)>>
      [] c = "AB" -> <<Entry(RefA), Entry(RefB)>>
      [] c = "BC" -> <<Entry(RefB), Entry(RefC)>>
      [] OTHER -> <<>>

LeafDoc(url, c) ==
    Doc(IF c = "none" THEN {"@context", "@id", "@type"} ELSE DocKeys,
        IF c = "BC" THEN "ctx2" ELSE "ctx1", url, "ex:PropertyIndex", LeafGraph(c))

RootDoc(w, url) ==
    IF url = S0 /\ w.shape = "nopti"
    THEN Container(url, <<Node(url, "foaf:Person")>>)
    ELSE Container(url, <<[Node(url, "foaf:Person") EXCEPT
                             !.publicTypeIndex = IF url = S0 THEN T0 ELSE T1]>>)

TypeIndexDoc(w, url) ==
    IF url = T0
    THEN Container(url,
           <<Node(T0, "solid:TypeIndex"),
             Registration("http://localhost:8000/profile#other", "ex:Other", D0),
             [Index("http://localhost:8000/profile#plain") EXCEPT
                 !.forClass = "ex:Index", !.instanceContainer = D0],
             Registration("http://localhost:8000/profile#index",
                          IF w.shape = "noreg" THEN "ex:Thing" ELSE "ex:Index", C0)>>
           \o (IF w.shape = "dup"
               THEN <<Registration("http://localhost:8000/profile#again", "ex:Index", C0)>>
               ELSE <<>>))
    ELSE Container(url, <<Registration("http://localhost:8001/profile#index", "ex:Index", C1)>>)

C0Doc(w) ==
    CASE w.shape = "diamond" ->
           Container(C0, <<Index(C0), Index(I0),
                           InstancesIn("http://localhost:8000/indexes/#skill", L0)>>)
      [] w.shape = "selfpir" ->
           Container(C0, <<Index(I0), InstancesIn(C0, L0)>>)
      [] w.shape = "deep" ->
           Container(C0, <<Index(C0), InstancesIn("http://localhost:8000/indexes/#archive", D0)>>)
      [] OTHER ->
           Container(C0, <<Index(C0),
                           Node("http://localhost:8000/indexes/#note", "ex:Note"),
                           Node("http://localhost:8000/indexes/#bare", Absent),
                           InstancesIn("http://localhost:8000/indexes/#none", Absent),
                           Index(I0)>>)

I0Doc(w) ==
    CASE w.shape = "cycle" -> Container(I0, <<Index(I0), Index(C0)>>)
      [] w.shape = "selfpir" -> Container(I0, <<Index(I0)>>)
      [] w.shape = "masq" ->
           Doc({"@context", "@id", "@type"}, "ctx1", I0, "ex:PropertyIndex", <<>>)
      [] w.shape = "diamond" ->
           Container(I0, <<Index(I0), InstancesIn("http://localhost:8000/indexes/users/#skill", L0)>>)
      [] OTHER ->
           Container(I0, <<Index(I0), SeeAlso("http://localhost:8000/indexes/users/#skill", "", L0)>>)

C1Doc(w) ==
    IF w.shape \in {"tree", "diamond", "selfpir"}
    THEN Container(C1, <<Index(C1), SeeAlso("http://localhost:8001/indexes/#skill", Absent, L1)>>)
    ELSE Container(C1, <<Index(C1)>>)

L1Doc == Doc(DocKeys, "ctx1", L1, "ex:PropertyIndex", <<Entry(RefB), Entry(RefD)>>)

\* response.raise_for_status(): the URLs that answer with an error status
Fails(w, url) ==
    \/ url = S0 /\ w.shape = "down"
    \/ url = I0 /\ w.shape = "gone"
    \/ url = S1 /\ w.shape = "down1"
    \/ url = T0 /\ w.shape = "tidown"
    \/ url = L0 /\ w.shape = "lost"

\* fetch_data(url) against the answers w; ok = FALSE is a
\* requests.RequestException
fetch_data(w, url) ==
    IF Fails(w, url) THEN [ok |-> FALSE, doc |-> EmptyDoc]
    ELSE [ok |-> TRUE,
          doc |-> CASE url \in {S0, S1} -> RootDoc(w, url)
                    [] url \in {T0, T1} -> TypeIndexDoc(w, url)
                    [] url = C0 -> C0Doc(w)
                    [] url = C1 -> C1Doc(w)
                    [] url = I0 -> I0Doc(w)
                    [] url = L1 -> L1Doc
                    [] OTHER -> LeafDoc(url, w.leaf)]

\* ----------------------------------------------------- discovery helpers
\* get_public_type_index(root_data): the value of the first entry that
\* holds the key, None when no entry does
get_public_type_index(root_data) ==
    LET g == GetGraph(root_data)
        hits == {j \in 1..Len(g) : g[j].publicTypeIndex # Absent}
    IN  IF hits = {} THEN Null
        ELSE g[CHOOSE j \in hits : \A k \in hits : j <= k].publicTypeIndex

\* line 91 without its test of @type
IsIndexRegistration_AnyType(item) ==
    item.forClass = "ex:Index"

\* line 91 without its test of solid:forClass
IsIndexRegistration_AnyClass(item) ==
    item.type = "solid:TypeIndexRegistration"

\* the condition of line 91
IsIndexRegistration(item) ==
    item.type = "solid:TypeIndexRegistration" /\ item.forClass = "ex:Index"

\* get_instance_containers(public_type_index_data)
get_instance_containers(public_type_index_data) ==
    LET sel == SelectSeq(GetGraph(public_type_index_data), IsIndexRegistration)
    IN  [j \in 1..Len(sel) |-> sel[j].instanceContainer]

NoCall == [go |-> FALSE, url |-> "", save_as_file |-> FALSE]

\* line 114 without the fall back to rdfs:seeAlso
CallFor_NoSeeAlso(item, url) ==
    IF item.id = url THEN NoCall
    ELSE IF item.type = "ex:PropertyIndexRegistration"
    THEN IF TruthyValue(item.instancesIn)
         THEN [go |-> TRUE, url |-> item.instancesIn, save_as_file |-> TRUE]
         ELSE NoCall
    ELSE IF item.type = "ex:Index"
    THEN [go |-> TRUE, url |-> item.id, save_as_file |-> FALSE]
    ELSE NoCall

\* line 118 passing True as line 116 does
CallFor_IndexAsLeaf(item, url) ==
    IF item.id = url THEN NoCall
    ELSE IF item.type = "ex:PropertyIndexRegistration"
    THEN LET instances_in == IF TruthyValue(item.instancesIn)
                             THEN item.instancesIn ELSE item.seeAlso
         IN  IF TruthyValue(instances_in)
             THEN [go |-> TRUE, url |-> instances_in, save_as_file |-> TRUE]
             ELSE NoCall
    ELSE IF item.type = "ex:Index"
    THEN [go |-> TRUE, url |-> item.id, save_as_file |-> TRUE]
    ELSE NoCall

\* the recursive call, if any, that lines 111-118 make for one entry of the
\* document fetched from url
CallFor(item, url) ==
    IF item.id = url THEN NoCall
    ELSE IF item.type = "ex:PropertyIndexRegistration"
    THEN LET instances_in == IF TruthyValue(item.instancesIn)
                             THEN item.instancesIn ELSE item.seeAlso
         IN  IF TruthyValue(instances_in)
             THEN [go |-> TRUE, url |-> instances_in, save_as_file |-> TRUE]
             ELSE NoCall
    ELSE IF item.type = "ex:Index"
    THEN [go |-> TRUE, url |-> item.id, save_as_file |-> FALSE]
    ELSE NoCall

\* lines 107-108
Register(ad, url, data) ==
    IF url \in DOMAIN ad.indexes THEN ad
    ELSE [ad EXCEPT !.indexes =
            [u \in DOMAIN ad.indexes \cup {url} |->
                IF u = url THEN data ELSE ad.indexes[u]]]

\* ------------------------------------------------------------------ state
VARIABLES
    run,                  \* number of the current execution of run_crawler
    world,                \* what the servers answer during this execution
    pc,                   \* "idle", "server", "containers", "done", "crashed", "save_data"
    srv,                  \* position of "for server in servers"
    instance_containers,  \* the list of line 143
    ci,                   \* position of "for container_url in instance_containers"
    stack,                \* the active process_indexes calls: [url, data, i]
    aggregated_data,      \* the dict of lines 122-125
    store,                \* the .jsonld files: file -> document
    dirs,                 \* the directories that exist
    error,                \* the exception that ended the run, "" if none
    caught,               \* the servers whose RequestException line 150 caught
    fetches,              \* per URL, fetch_data calls of this run
    saves,                \* per URL, completed save_data calls of this run
    lastSave,             \* the most recent save_data call and what it found
    writer,               \* per file, the URL whose save_data wrote it last
    applied,              \* save_data calls applied (save_data-only specification)
    previous              \* how the execution before this one ended, when it
                          \* was given the same answers by the servers

vars == <<run, world, pc, srv, instance_containers, ci, stack, aggregated_data,
          store, dirs, error, caught, fetches, saves, lastSave, writer, applied, previous>>

NoFiles == [f \in {} |-> EmptyDoc]
NoWriters == [f \in {} |-> ""]
NoIndexes == [u \in {} |-> EmptyDoc]
Zero == [u \in URLs |-> 0]
NoSave ==
    [valid |-> FALSE, url |-> "", leaf |-> FALSE, file |-> [dir |-> <<>>, name |-> ""],
     exists |-> FALSE, old |-> EmptyDoc, oldWriter |-> "", data |-> EmptyDoc]

Inc(f, u) == [f EXCEPT ![u] = @ + 1]

\* what a save_data call found and was given
SaveRecord(url, leaf, data, s) ==
    [valid |-> TRUE, url |-> url, leaf |-> leaf, file |-> s.file,
     exists |-> s.file \in DOMAIN store,
     old |-> IF s.file \in DOMAIN store THEN store[s.file] ELSE EmptyDoc,
     oldWriter |-> IF s.file \in DOMAIN store THEN writer[s.file] ELSE "",
     data |-> data]

Wrote(url, s) ==
    [f \in DOMAIN writer \cup {s.file} |-> IF f = s.file THEN url ELSE writer[f]]

\* what is remembered of the execution before: pc at its end ("damaged" when
\* a file was damaged after it), the registry it returned and the files it
\* left
NoPrevious ==
    [same |-> FALSE, pc |-> "idle",
     aggregated_data |-> [indexes |-> NoIndexes, users |-> <<>>], store |-> NoFiles]

Init ==
    /\ run = 0
    /\ world = [shape |-> "tree", leaf |-> "none"]
    /\ pc = "idle"
    /\ srv = 1
    /\ instance_containers = <<>>
    /\ ci = 1
    /\ stack = <<>>
    /\ aggregated_data = [indexes |-> NoIndexes, users |-> <<>>]
    /\ store = NoFiles
    /\ dirs = {<<>>}
    /\ error = ""
    /\ caught = {}
    /\ fetches = Zero
    /\ saves = Zero
    /\ lastSave = NoSave
    /\ writer = NoWriters
    /\ applied = 0
    /\ previous = NoPrevious

\* --------------------------------------------------------------- the crawl
\* run_crawler is started: aggregate_data builds an empty aggregated_data
\* (lines 122-125); the files of earlier executions are still there
RunCrawler ==
    /\ pc \in {"idle", "done", "crashed", "damaged"}
    /\ run < MaxRuns
    /\ \E w \in Worlds :
          /\ world' = w
          /\ previous' = IF run >= 1 /\ w = world
                         THEN [same |-> TRUE, pc |-> pc,
                               aggregated_data |-> aggregated_data, store |-> store]
                         ELSE NoPrevious
    /\ run' = run + 1
    /\ pc' = "server"
    /\ srv' = 1
    /\ instance_containers' = <<>>
    /\ ci' = 1
    /\ stack' = <<>>
    /\ aggregated_data' = [indexes |-> NoIndexes, users |-> <<>>]
    /\ error' = ""
    /\ caught' = {}
    /\ fetches' = Zero
    /\ saves' = Zero
    /\ lastSave' = NoSave
    /\ UNCHANGED <<store, dirs, writer, applied>>

\* between two executions the file of a leaf loses its JSON form (a write of
\* line 56 cut short, a disk fault, an edit by hand)
CacheDamaged ==
    /\ pc = "done"
    /\ run < MaxRuns
    /\ LeafFile(L0) \in DOMAIN store
    /\ store[LeafFile(L0)] # Malformed
    /\ store' = [store EXCEPT ![LeafFile(L0)] = Malformed]
    /\ pc' = "damaged"
    /\ UNCHANGED <<run, world, srv, instance_containers, ci, stack, aggregated_data,
                   dirs, error, caught, fetches, saves, lastSave, writer, applied, previous>>

\* the loop of line 127 goes on with the next server
NextServer ==
    /\ pc' = "server"
    /\ srv' = srv + 1
    /\ instance_containers' = <<>>
    /\ ci' = 1
    /\ stack' = <<>>

\* the try of line 128 put around the loop of line 127: the first
\* RequestException ends the loop and aggregate_data returns
Except_AroundLoop ==
    /\ pc' = "done"
    /\ instance_containers' = <<>>
    /\ ci' = 1
    /\ stack' = <<>>
    /\ caught' = caught \cup {servers[srv]}
    /\ UNCHANGED srv

\* "except requests.RequestException" (lines 150-152): the rest of this
\* server is given up
Except ==
    /\ NextServer
    /\ caught' = caught \cup {servers[srv]}

\* an exception that line 150 does not catch ends aggregate_data
Raise(err) ==
    /\ pc' = "crashed"
    /\ error' = err
    /\ stack' = <<>>
    /\ UNCHANGED <<srv, instance_containers, ci, caught>>

\* lines 128-144 for one server
ServerRoot ==
    /\ pc = "server"
    /\ srv <= Len(servers)
    /\ LET server == servers[srv]
           r == fetch_data(world, server)
           s == save_data(server, r.doc, FALSE, store, dirs)
           public_type_index_url == get_public_type_index(r.doc)
           t == fetch_data(world, public_type_index_url)
       IN  IF ~r.ok
           THEN /\ Except
                /\ fetches' = Inc(fetches, server)
                /\ UNCHANGED <<store, dirs, saves, lastSave, writer>>
           ELSE /\ store' = s.store
                /\ dirs' = s.dirs
                /\ saves' = Inc(saves, server)
                /\ lastSave' = SaveRecord(server, FALSE, r.doc, s)
                /\ writer' = Wrote(server, s)
                /\ IF ~TruthyValue(public_type_index_url)
                   THEN /\ NextServer
                        /\ fetches' = Inc(fetches, server)
                        /\ UNCHANGED caught
                   ELSE /\ fetches' = Inc(Inc(fetches, server), public_type_index_url)
                        /\ IF ~t.ok
                           THEN Except
                           ELSE /\ instance_containers' = get_instance_containers(t.doc)
                                /\ ci' = 1
                                /\ pc' = "containers"
                                /\ UNCHANGED <<srv, stack, caught>>
    /\ UNCHANGED <<run, world, aggregated_data, error, applied, previous>>

\* process_indexes called outside the try of line 128: a RequestException of
\* its fetch is caught nowhere and ends aggregate_data
Enter_Uncaught(url, save_as_file, below, next_ci) ==
    LET r == fetch_data(world, url)
        s == save_data(url, r.doc, save_as_file, store, dirs)
    IN  IF Len(below) >= MaxDepth
        THEN /\ Raise("RecursionError")
             /\ UNCHANGED <<aggregated_data, store, dirs, fetches, saves, lastSave, writer>>
        ELSE IF ~r.ok
        THEN /\ Raise("ConnectionError")
             /\ fetches' = Inc(fetches, url)
             /\ UNCHANGED <<aggregated_data, store, dirs, saves, lastSave, writer>>
        ELSE IF ~s.ok
        THEN /\ Raise(s.err)
             /\ fetches' = Inc(fetches, url)
             /\ lastSave' = SaveRecord(url, save_as_file, r.doc, s)
             /\ UNCHANGED <<aggregated_data, store, dirs, saves, writer>>
        ELSE /\ fetches' = Inc(fetches, url)
             /\ store' = s.store
             /\ dirs' = s.dirs
             /\ saves' = Inc(saves, url)
             /\ lastSave' = SaveRecord(url, save_as_file, r.doc, s)
             /\ writer' = Wrote(url, s)
             /\ aggregated_data' = Register(aggregated_data, url, r.doc)
             /\ stack' = <<[url |-> url, data |-> r.doc, i |-> 1]>> \o below
             /\ ci' = next_ci
             /\ UNCHANGED <<pc, srv, instance_containers, error, caught>>

\* process_indexes(url, aggregated_data, save_as_file) up to its loop
\* (lines 104-108), called from the frames below
Enter(url, save_as_file, below, next_ci) ==
    LET r == fetch_data(world, url)
        s == save_data(url, r.doc, save_as_file, store, dirs)
    IN  IF Len(below) >= MaxDepth
        THEN /\ Raise("RecursionError")
             /\ UNCHANGED <<aggregated_data, store, dirs, fetches, saves, lastSave, writer>>
        ELSE IF ~r.ok
        THEN /\ Except
             /\ fetches' = Inc(fetches, url)
             /\ UNCHANGED <<aggregated_data, store, dirs, error, saves, lastSave, writer>>
        ELSE IF ~s.ok
        THEN /\ Raise(s.err)
             /\ fetches' = Inc(fetches, url)
             /\ lastSave' = SaveRecord(url, save_as_file, r.doc, s)
             /\ UNCHANGED <<aggregated_data, store, dirs, saves, writer>>
        ELSE /\ fetches' = Inc(fetches, url)
             /\ store' = s.store
             /\ dirs' = s.dirs
             /\ saves' = Inc(saves, url)
             /\ lastSave' = SaveRecord(url, save_as_file, r.doc, s)
             /\ writer' = Wrote(url, s)
             /\ aggregated_data' = Register(aggregated_data, url, r.doc)
             /\ stack' = <<[url |-> url, data |-> r.doc, i |-> 1]>> \o below
             /\ ci' = next_ci
             /\ UNCHANGED <<pc, srv, instance_containers, error, caught>>

\* lines 146-148: the next instance container of the server
CallContainer ==
    /\ pc = "containers"
    /\ stack = <<>>
    /\ ci <= Len(instance_containers)
    /\ Enter(instance_containers[ci], FALSE, <<>>, ci + 1)
    /\ UNCHANGED <<run, world, applied, previous>>

Top == stack[1]
TopGraph == GetGraph(Top.data)
Advanced == <<[Top EXCEPT !.i = @ + 1]>> \o Tail(stack)

\* lines 110-118: an entry that causes no call (the entry for the document
\* itself, a registration without target, any other type)
ProcessItemSkip ==
    /\ pc = "containers"
    /\ stack # <<>>
    /\ Top.i <= Len(TopGraph)
    /\ ~CallFor(TopGraph[Top.i], Top.url).go
    /\ stack' = Advanced
    /\ UNCHANGED <<run, world, pc, srv, instance_containers, ci, aggregated_data,
                   store, dirs, error, caught, fetches, saves, lastSave, writer, applied, previous>>

\* lines 113-118: an entry that causes a recursive call
ProcessItemCall ==
    /\ pc = "containers"
    /\ stack # <<>>
    /\ Top.i <= Len(TopGraph)
    /\ LET c == CallFor(TopGraph[Top.i], Top.url)
       IN  /\ c.go
           /\ Enter(c.url, c.save_as_file, Advanced, ci)
    /\ UNCHANGED <<run, world, applied, previous>>

\* the loop of line 110 is over: process_indexes returns to its caller
ProcessReturn ==
    /\ pc = "containers"
    /\ stack # <<>>
    /\ Top.i > Len(TopGraph)
    /\ stack' = Tail(stack)
    /\ UNCHANGED <<run, world, pc, srv, instance_containers, ci, aggregated_data,
                   store, dirs, error, caught, fetches, saves, lastSave, writer, applied, previous>>

\* the loop of line 146 is over: next server
ServerDone ==
    /\ pc = "containers"
    /\ stack = <<>>
    /\ ci > Len(instance_containers)
    /\ NextServer
    /\ UNCHANGED <<run, world, aggregated_data, store, dirs, error, caught, fetches,
                   saves, lastSave, writer, applied, previous>>

\* line 154: the loop of line 127 is over, aggregate_data returns
Finish ==
    /\ pc = "server"
    /\ srv > Len(servers)
    /\ pc' = "done"
    /\ UNCHANGED <<run, world, srv, instance_containers, ci, stack, aggregated_data,
                   store, dirs, error, caught, fetches, saves, lastSave, writer, applied, previous>>

Next ==
    \/ RunCrawler
    \/ CacheDamaged
    \/ ServerRoot
    \/ CallContainer
    \/ ProcessItemSkip
    \/ ProcessItemCall
    \/ ProcessReturn
    \/ ServerDone
    \/ Finish

Spec == Init /\ [][Next]_vars

\* ------------------------------------------- save_data applied on its own
\* the documents given to save_data and found in the file
UnitGraphs ==
    {<<>>, <<Entry(RefA)>>, <<Entry(RefB)>>, <<Entry(RefA), Entry(RefB)>>,
     <<Entry(RefB), Entry(RefC)>>, <<Entry(RefC), Entry(RefA), Entry(RefC)>>}

UnitDocs ==
    {Doc(k \cup g.keys, c, L0, "ex:PropertyIndex", g.graph) :
        k \in {{}, {"@context"}, {"@context", "@id", "@type"}},
        c \in {"ctx1", "ctx2"},
        g \in {[keys |-> {}, graph |-> <<>>]}
              \cup {[keys |-> {"@graph"}, graph |-> gr] : gr \in UnitGraphs}}

UnitURLs == {L0, I0}

AllDirs == MakeDirs({<<>>}, <<"indexes", "users">>)

SaveInit ==
    /\ run = 0
    /\ world = [shape |-> "tree", leaf |-> "none"]
    /\ pc = "save_data"
    /\ srv = 1
    /\ instance_containers = <<>>
    /\ ci = 1
    /\ stack = <<>>
    /\ aggregated_data = [indexes |-> NoIndexes, users |-> <<>>]
    /\ \/ store = NoFiles /\ writer = NoWriters /\ dirs \in {{<<>>}, AllDirs}
       \/ /\ \E d \in UnitDocs \cup {Malformed} :
               store = [f \in {LeafFile(L0)} |-> d]
          /\ writer = [f \in {LeafFile(L0)} |-> L0]
          /\ dirs = AllDirs
    /\ error = ""
    /\ caught = {}
    /\ fetches = Zero
    /\ saves = Zero
    /\ lastSave = NoSave
    /\ applied = 0
    /\ previous = NoPrevious

ApplySave(url, data, save_as_file) ==
    LET s == save_data(url, data, save_as_file, store, dirs)
    IN  /\ pc = "save_data"
        /\ applied < MaxSaves
        /\ applied' = applied + 1
        /\ lastSave' = SaveRecord(url, save_as_file, data, s)
        /\ store' = s.store
        /\ dirs' = s.dirs
        /\ writer' = IF s.ok THEN Wrote(url, s) ELSE writer
        /\ error' = s.err
        /\ UNCHANGED <<run, world, pc, srv, instance_containers, ci, stack,
                       aggregated_data, caught, fetches, saves, previous>>

\* save_data(url, data, True)
ApplySaveLeaf == \E url \in UnitURLs, data \in UnitDocs : ApplySave(url, data, TRUE)

\* save_data(url, data)
ApplySaveOverwrite == \E url \in UnitURLs, data \in UnitDocs : ApplySave(url, data, FALSE)

NextSave == ApplySaveLeaf \/ ApplySaveOverwrite

SpecSave == SaveInit /\ [][NextSave]_vars

\* ------------------------------------------------------------- properties
LastWritten == store[lastSave.file]
LeafSaved == lastSave.valid /\ lastSave.leaf /\ error = ""
HasGraph(d) == "@graph" \in d.keys

\* C1: within one run every URL is fetched at most once and persisted at
\* most once, however often process_indexes is invoked on it, and the
\* registry holds one entry for it.
C1_IdempotentRevisit ==
    \A u \in URLs :
        /\ fetches[u] <= 1
        /\ saves[u] <= 1
        /\ Cardinality({k \in DOMAIN aggregated_data.indexes : k = u}) <= 1

\* C2: on a graph with a reference back to an ancestor the traversal
\* terminates: no URL is entered while a call on it is still active, and the
\* recursion never runs into the interpreter's limit.
C2_CycleSafety ==
    /\ error # "RecursionError"
    /\ \A i, j \in 1..Len(stack) : i # j => stack[i].url # stack[j].url

\* C3: when the cached and the fetched document both carry @graph, the
\* document a leaf-mode save persists has exactly the union of the two
\* reference sets.
C3_UnionMerge ==
    (LeafSaved /\ lastSave.exists /\ HasGraph(lastSave.old) /\ HasGraph(lastSave.data))
    => Refs(GetGraph(LastWritten))
         = Refs(GetGraph(lastSave.old)) \cup Refs(GetGraph(lastSave.data))

\* C4: every leaf-mode save leaves in the file all references the file held
\* before and all references just fetched: the stored reference set of a
\* leaf never shrinks from run to run.
C4_AppendOnlyLedger ==
    [][(lastSave'.valid /\ lastSave'.leaf /\ lastSave' # lastSave
            /\ error' = ""
            /\ (lastSave'.exists => lastSave'.oldWriter = lastSave'.url))
       => LET f == lastSave'.file
              before == IF f \in DOMAIN store THEN Refs(GetGraph(store[f])) ELSE {}
          IN  (before \cup Refs(GetGraph(lastSave'.data))) \subseteq Refs(GetGraph(store'[f]))]_vars

\* C5: when a leaf-mode save merges a cached document with a fetched one,
\* every top-level field of the result other than @graph is the fetched
\* document's: same keys, same context, id and type.
C5_MergedShapeFromNew ==
    (LeafSaved /\ lastSave.exists /\ HasGraph(lastSave.old) /\ HasGraph(lastSave.data))
    => /\ LastWritten.keys \ {"@graph"} = lastSave.data.keys \ {"@graph"}
       /\ LastWritten.ctx = lastSave.data.ctx
       /\ LastWritten.id = lastSave.data.id
       /\ LastWritten.type = lastSave.data.type

\* C6: when no file is stored under the key, or the stored document is
\* empty, a leaf-mode save persists the fetched document unchanged.
C6_NoMergeOnAbsent ==
    (LeafSaved /\ (~lastSave.exists \/ ~TruthyDoc(lastSave.old)))
    => LastWritten = lastSave.data

C6_Witness ==
    /\ LeafSaved
    /\ ~lastSave.exists
    /\ Cardinality(Refs(GetGraph(lastSave.data))) = 2
    /\ lastSave.file \in DOMAIN store

\* C7: when a cached document exists but it or the fetched document has no
\* @graph, a leaf-mode save persists the fetched document unchanged.
C7_ShapeMismatchPassthrough ==
    (LeafSaved /\ lastSave.exists /\ TruthyDoc(lastSave.old)
        /\ (~HasGraph(lastSave.old) \/ ~HasGraph(lastSave.data)))
    => LastWritten = lastSave.data

\* C8: a save in overwrite mode stores exactly the fetched document,
\* whatever the file held before.
C8_OverwriteNotMerge ==
    (lastSave.valid /\ ~lastSave.leaf) => LastWritten = lastSave.data

\* second run, the container listed a child in the first run that it no
\* longer lists
C8_Witness ==
    /\ run = 2
    /\ lastSave.valid
    /\ ~lastSave.leaf
    /\ lastSave.url = C0
    /\ lastSave.exists
    /\ lastSave.oldWriter = C0
    /\ Refs(GetGraph(lastSave.old)) \ Refs(GetGraph(lastSave.data)) # {}

\* C10: whenever a leaf-mode save reconciles the fetched document against a
\* cached one, the cached one was written by a save of the same URL.
C10_MergeSameResource ==
    (LeafSaved /\ lastSave.exists /\ TruthyDoc(lastSave.old))
    => lastSave.oldWriter = lastSave.url

\* the URLs one document sends the crawl to: the ids of its Index entries
\* and the instances-in / see-also targets of its PropertyIndexRegistration
\* entries; with own_entry_too = FALSE the entries whose id is the
\* document's own URL are left out
Targets(url, own_entry_too) ==
    LET g == GetGraph(fetch_data(world, url).doc)
        used == {j \in 1..Len(g) : own_entry_too \/ g[j].id # url}
        target(n) == IF TruthyValue(n.instancesIn) THEN n.instancesIn ELSE n.seeAlso
    IN  {g[j].id : j \in {k \in used : g[k].type = "ex:Index"}}
        \cup {target(g[j]) : j \in {k \in used :
                                      /\ g[k].type = "ex:PropertyIndexRegistration"
                                      /\ TruthyValue(target(g[k]))}}

RECURSIVE Closure(_, _)
Closure(S, own_entry_too) ==
    LET N == S \cup UNION {Targets(u, own_entry_too) : u \in S}
    IN  IF N = S THEN S ELSE Closure(N, own_entry_too)

\* the instance containers the servers register for ex:Index
RegisteredContainers ==
    UNION {LET root == fetch_data(world, servers[k]).doc
               pti == get_public_type_index(root)
           IN  IF TruthyValue(pti)
               THEN {n.instanceContainer :
                        n \in {m \in {GetGraph(fetch_data(world, pti).doc)[j] :
                                        j \in 1..Len(GetGraph(fetch_data(world, pti).doc))} :
                                 m.type = "solid:TypeIndexRegistration" /\ m.forClass = "ex:Index"}}
               ELSE {} : k \in 1..Len(servers)}

RegistryIs(reached) ==
    /\ DOMAIN aggregated_data.indexes = reached
    /\ \A u \in DOMAIN aggregated_data.indexes :
          aggregated_data.indexes[u] = fetch_data(world, u).doc
    /\ aggregated_data.users = <<>>

\* C9 as stated: after a run without failure the keys of the registry are
\* exactly the URLs reachable from the instance containers through Index
\* entries and PropertyIndexRegistration targets, each mapped to the
\* document fetched for it, and users is empty.
C9_RegistryContent ==
    (pc = "done" /\ caught = {}) => RegistryIs(Closure(RegisteredContainers, TRUE))

\* C9 amended: as above, where the entries of a document whose id is the
\* URL of that very document are not followed.
C9_RegistryContentAmended ==
    (pc = "done" /\ caught = {}) => RegistryIs(Closure(RegisteredContainers, FALSE))

C9_Witness ==
    /\ pc = "done"
    /\ caught = {}
    /\ {C0, I0, L0, C1, L1} \subseteq DOMAIN aggregated_data.indexes

\* C11: when the fetch of a server's root document fails, the error stays
\* inside aggregate_data, the server adds nothing to the registry or to the
\* files, the loop goes on with the next server and the entries of earlier
\* servers are kept; when aggregate_data returns, the root of every server
\* has been asked for.
C11_RootFailureIsolated ==
    [][/\ (pc = "server" /\ srv <= Len(servers) /\ Fails(world, servers[srv]))
          => /\ pc' = "server"
             /\ srv' = srv + 1
             /\ error' = ""
             /\ servers[srv] \in caught'
             /\ aggregated_data' = aggregated_data
             /\ store' = store
       /\ pc' = "done" => \A k \in 1..Len(servers) : fetches'[servers[k]] >= 1]_vars

\* the second server is down; the first one's entries are in the result
C11_Witness ==
    /\ pc = "done"
    /\ Fails(world, S1)
    /\ caught = {S1}
    /\ {C0, I0, L0} \subseteq DOMAIN aggregated_data.indexes

\* the call of process_indexes that the crawl makes next, if any: the next
\* instance container (line 148) or the call for the entry under the loop
\* of line 110
PendingCall ==
    IF pc # "containers" THEN NoCall
    ELSE IF stack = <<>>
    THEN IF ci <= Len(instance_containers)
         THEN [go |-> TRUE, url |-> instance_containers[ci], save_as_file |-> FALSE]
         ELSE NoCall
    ELSE IF Top.i <= Len(TopGraph)
    THEN CallFor(TopGraph[Top.i], Top.url)
    ELSE NoCall

\* the fetch of the next call of process_indexes raises a transport error
DeepFailure ==
    /\ PendingCall.go
    /\ Len(stack) < MaxDepth
    /\ Fails(world, PendingCall.url)

\* C12: a transport error of a fetch inside process_indexes is caught
\* nowhere: it leaves aggregate_data and ends the run, no later server is
\* crawled.
C12_DeepFailureAborts ==
    [][DeepFailure => (pc' = "crashed" /\ error' # "" /\ srv' = srv)]_vars

\* C12 as the code has it: the transport error of a fetch inside
\* process_indexes is caught by the handler of the server being crawled; the
\* rest of that server's expansion is given up, what was registered and
\* written before stays, and the crawl goes on with the next server.
C12_DeepFailureCaught ==
    [][DeepFailure
         => /\ pc' = "server"
            /\ srv' = srv + 1
            /\ stack' = <<>>
            /\ error' = ""
            /\ servers[srv] \in caught'
            /\ aggregated_data' = aggregated_data
            /\ store' = store]_vars

\* the Index below the first server's container cannot be fetched; the run
\* ends normally with that container and the second server's in the result
C12_Witness ==
    /\ pc = "done"
    /\ Fails(world, I0)
    /\ fetches[I0] = 1
    /\ caught = {S0}
    /\ {C0, C1} \subseteq DOMAIN aggregated_data.indexes
    /\ I0 \notin DOMAIN aggregated_data.indexes

\* the root document of the server has no node with a public-type-index
\* pointer
NoPointer(server) ==
    LET g == GetGraph(RootDoc(world, server))
    IN  \A j \in DOMAIN g : g[j].publicTypeIndex = Absent

\* the server's type index can be fetched and has no registration of the
\* index class
NoMatchingRegistration(server) ==
    /\ ~NoPointer(server)
    /\ LET t == get_public_type_index(RootDoc(world, server))
           g == GetGraph(TypeIndexDoc(world, t))
       IN  /\ ~Fails(world, t)
           /\ \A j \in DOMAIN g :
                ~(g[j].type = "solid:TypeIndexRegistration" /\ g[j].forClass = "ex:Index")

\* C13: a server whose root document has no public-type-index pointer, or
\* whose type index has no registration of the index class, raises no error,
\* has no instance container expanded, adds nothing to the registry, and the
\* crawl goes on with the next server.
C13_MissingPointerNonFatal ==
    [][/\ (pc = "server" /\ srv <= Len(servers) /\ ~Fails(world, servers[srv])
              /\ NoPointer(servers[srv]))
          => /\ pc' = "server" /\ srv' = srv + 1
             /\ error' = "" /\ caught' = caught
             /\ aggregated_data' = aggregated_data
       /\ (pc = "server" /\ srv <= Len(servers) /\ ~Fails(world, servers[srv])
              /\ NoMatchingRegistration(servers[srv]))
          => /\ pc' = "containers" /\ srv' = srv
             /\ instance_containers' = <<>> /\ stack' = <<>>
             /\ error' = "" /\ caught' = caught
             /\ aggregated_data' = aggregated_data
       /\ (pc = "containers" /\ stack = <<>> /\ instance_containers = <<>>)
          => /\ pc' = "server" /\ srv' = srv + 1
             /\ error' = "" /\ caught' = caught
             /\ aggregated_data' = aggregated_data
             /\ fetches' = fetches /\ store' = store]_vars

\* the first server's type index registers no index class; the run ends
\* with the second server's indexes only
C13_Witness ==
    /\ pc = "done"
    /\ NoMatchingRegistration(S0)
    /\ error = "" /\ caught = {}
    /\ fetches[T0] = 1 /\ fetches[C0] = 0 /\ fetches[D0] = 0
    /\ DOMAIN aggregated_data.indexes # {}
    /\ \A u \in DOMAIN aggregated_data.indexes : urlparse(u).netloc = urlparse(S1).netloc

\* C14: a leaf-mode save that finds a stored version which cannot be parsed
\* behaves as if nothing were stored: no error, and the fetched document is
\* in the file unchanged.
C14_MalformedAsAbsent ==
    (lastSave.valid /\ lastSave.leaf /\ lastSave.exists /\ lastSave.old = Malformed)
    => (error = "" /\ LastWritten = lastSave.data)

\* C15: when the servers give the same answers in two executions in a row,
\* both ending normally, the second leaves every file as the first left it.
C15_FixedPointAfterFirstRun ==
    (pc = "done" /\ previous.same /\ previous.pc = "done") => store = previous.store

\* C16: two executions that get the same answers from the servers return
\* the same registry, whatever the files they start from.
C16_RegistryIndependentOfStore ==
    (pc \in {"done", "crashed"} /\ previous.same /\ previous.pc \in {"done", "damaged"})
    => (pc = "done" /\ aggregated_data = previous.aggregated_data)

\* C17: every save of a crawl succeeds whatever the files before it: the
\* directories of the target are made when they are missing, so a save to a
\* file that did not exist raises no FileNotFoundError and leaves the file.
C17_WritesCreateStructure ==
    (lastSave.valid /\ ~lastSave.exists)
    => (error # "FileNotFoundError" /\ lastSave.file \in DOMAIN store)

\* a field holds a usable value (not missing, null or empty)
Present(v) == v # Absent /\ v # Null /\ v # ""

\* the target of a registration: instances-in, else see-also
TargetOf(item) == IF Present(item.instancesIn) THEN item.instancesIn ELSE item.seeAlso

\* the step fetches u once and saves what it got in the given mode, unless
\* the fetch fails
Expands(u, leaf) ==
    /\ fetches' = Inc(fetches, u)
    /\ \/ Fails(world, u)
       \/ lastSave'.valid /\ lastSave'.url = u /\ lastSave'.leaf = leaf

\* C18: under the loop of process_indexes, for an entry other than the one
\* for the expanded URL itself, a PropertyIndexRegistration with a target
\* (instances-in, else see-also) has the target expanded in leaf mode, an
\* Index has its id expanded in overwrite mode, and every other entry (other
\* type, no type, registration without target) causes no fetch, no write, no
\* registry change and no error; instance containers are expanded in
\* overwrite mode.
C18_SaveModeFollowsEdge ==
    [][/\ (pc = "containers" /\ stack # <<>> /\ Top.i <= Len(TopGraph)
              /\ Len(stack) < MaxDepth /\ TopGraph[Top.i].id # Top.url)
          => LET item == TopGraph[Top.i]
             IN  IF item.type = "ex:PropertyIndexRegistration" /\ Present(TargetOf(item))
                 THEN Expands(TargetOf(item), TRUE)
                 ELSE IF item.type = "ex:Index"
                 THEN Expands(item.id, FALSE)
                 ELSE /\ fetches' = fetches /\ store' = store /\ dirs' = dirs
                      /\ aggregated_data' = aggregated_data
                      /\ error' = "" /\ pc' = pc /\ caught' = caught
                      /\ stack' = Advanced
       /\ (pc = "containers" /\ stack = <<>> /\ ci <= Len(instance_containers))
          => Expands(instance_containers[ci], FALSE)]_vars

\* a leaf was reached through the see-also field of a registration whose
\* instances-in is empty, and saved in leaf mode
C18_Witness ==
    /\ pc = "containers"
    /\ Len(stack) >= 2
    /\ Top.url = L0 /\ lastSave.valid /\ lastSave.url = L0 /\ lastSave.leaf
    /\ LET below == stack[2]
           item == GetGraph(below.data)[below.i - 1]
       IN  /\ below.i >= 2
           /\ item.type = "ex:PropertyIndexRegistration"
           /\ ~Present(item.instancesIn)
           /\ item.seeAlso = L0

\* C19: a document that was expanded in overwrite mode, has no node
\* collection, and whose own type is the property-index type is saved with
\* reconciliation against its stored version (leaf mode).
C19_MasqueradingLeafMerged ==
    (pc = "containers" /\ stack # <<>> /\ lastSave.valid /\ lastSave.url = Top.url
        /\ Top.i > Len(TopGraph)
        /\ ~HasGraph(Top.data) /\ Top.data.type = "ex:PropertyIndex")
    => lastSave.leaf

\* the instance-container values of the registrations of the index class in
\* a node collection, in order, repeated as often as they occur
RECURSIVE IndexContainersOf(_)
IndexContainersOf(g) ==
    IF g = <<>> THEN <<>>
    ELSE (IF Head(g).type = "solid:TypeIndexRegistration" /\ Head(g).forClass = "ex:Index"
          THEN <<Head(g).instanceContainer>>
          ELSE <<>>) \o IndexContainersOf(Tail(g))

\* the same for the type index that the root document of a server points to
ServerContainers(w, server) ==
    IndexContainersOf(GetGraph(TypeIndexDoc(w, get_public_type_index(RootDoc(w, server)))))

\* C20: the list that get_instance_containers returns for a server's type
\* index holds, in document order and with repetitions, the instance
\* containers of exactly the nodes that are type-index registrations and are
\* for the index class; aggregate_data expands the list from first to last,
\* each URL in overwrite mode, going to the next one when the expansion of
\* one is over.
C20_TypeIndexResolution ==
    [][/\ pc' = "containers" => instance_containers' = ServerContainers(world', servers[srv'])
       /\ (pc = "server" /\ pc' = "containers") => ci' = 1
       /\ (pc = "containers" /\ stack = <<>> /\ ci <= Len(instance_containers))
          => \/ Fails(world, instance_containers[ci]) /\ pc' = "server"
             \/ /\ ci' = ci + 1
                /\ Len(stack') = 1 /\ stack'[1].url = instance_containers[ci]
                /\ lastSave'.url = instance_containers[ci] /\ ~lastSave'.leaf
       /\ (pc = "containers" /\ stack # <<>> /\ pc' = "containers") => ci' = ci]_vars

\* the type index registers the same container twice and both occurrences
\* have been expanded
C20_Witness ==
    /\ pc = "containers"
    /\ instance_containers = <<C0, C0>>
    /\ ci = 3 /\ stack = <<>>
    /\ fetches[C0] = 2 /\ saves[C0] = 2
    /\ fetches[D0] = 0
====
